---- MODULE Spec2Model ----
(***************************************************************************)
(* pyobs-zaber: ZaberModeSelector (src/pyobs_zaber/ZaberModeSelector.py)   *)
(* and ZaberMotor (src/pyobs-zaber/zaber_xNMS23.py) as one state machine.  *)
(*                                                                         *)
(* Positions, lengths and mode positions are exact rationals k/Scale, held *)
(* as the integer k.  The vendor driver is the opaque collaborator: an     *)
(* absolute move puts the axis at its target, a relative move adds its     *)
(* length, get_position reads the axis, and every driver call may raise.   *)
(* A motion command counts as sent once the driver's method is called,     *)
(* whether the device then carries it out or answers with a fault.         *)
(* Two tasks of the event loop, A and B, call the public coroutines.  A    *)
(* coroutine runs without interruption up to the one place where it really *)
(* awaits I/O (move_absolute_async in move_to); while one task is          *)
(* suspended there the other may call any public method, before the device *)
(* has answered the move and between the answer and the moment the         *)
(* suspended task is resumed.  The steps                                   *)
(* between are kept apart only to observe the serial connection being      *)
(* opened and closed, and no other task runs between them.                 *)
(***************************************************************************)
EXTENDS Integers, Sequences, FiniteSets

\* ---------------------------------------------------------------- bounds
Scale == 2      \* resolution of a position: 1/Scale of a length unit
MaxPos == 3     \* travel range of the axis, in steps of 1/Scale
MaxSpeed == 1   \* largest speed a caller passes

steps == 100
DefaultSpeed == 0   \* __init__: speed: float = 0

Positions == 0 .. MaxPos
Speeds == 1 .. MaxSpeed
Names == {"spectroscopy", "photometry"}
ModeArgs == Names \cup {"unknown"}
ProfileNames == {"sine", "gauss", "triangel"}
Lengths == {0 - 1, 1}

\* an integer position and one that is not an integer
ModePositions == {0, Scale + 1}

\* the dicts {name: position} a configuration may give, in insertion order
\* (one name, or both; the two names are interchangeable)
ModeTables ==
    { <<[name |-> "spectroscopy", pos |-> p]>> : p \in ModePositions }
    \cup
    { <<[name |-> "spectroscopy", pos |-> p1], [name |-> "photometry", pos |-> p2]>> :
        p1 \in ModePositions, p2 \in ModePositions }

\* the tasks of the event loop that call the object
Tasks == {"A", "B"}
Other(t) == IF t = "A" THEN "B" ELSE "A"

VARIABLES
    self,     \* the object's fields, set by __init__ and never assigned again
    axis,     \* the motor: position of axis 1
    led,      \* the motor: setting system.led.enable
    conn,     \* number of open connections to the serial port
    pc,       \* per task: where its running call stands
    call,     \* per task: its running (or last) call and the arguments
    cur,      \* per task: set_mode's local, what its get_mode() returned
    ret,      \* per task: how its last call ended
    cmds,     \* per task: motion commands the call has sent to the driver
    pos0,     \* per task: axis position when the call began, for the calls
              \* whose effect is stated relative to it
    solo,     \* A's call is no set_mode during which another caller called
    after     \* in a get_mode or check_position call of task A: the mode that
              \* A's set_mode, which returned just before it, had set, when
              \* no other caller called during that set_mode or since

vars == <<self, axis, led, conn, pc, call, cur, ret, cmds, pos0, solo, after>>

\* ------------------------------------------------------- python values
None == [t |-> "None"]
Str(s) == [t |-> "str", s |-> s]
Num(n) == [t |-> "num", n |-> n]
Bool(b) == [t |-> "bool", b |-> b]
List(l) == [t |-> "list", l |-> l]
Coroutine(f) == [t |-> "coroutine", f |-> f]

Returned(v) == [done |-> TRUE, val |-> v, err |-> "None"]
Raised(e) == [done |-> TRUE, val |-> None, err |-> e]
Running == [done |-> FALSE, val |-> None, err |-> "None"]

\* an optional argument is <<>> when left out (None) and <<v>> when given
Call(op, name, num, spd, lu, su) ==
    [op |-> op, name |-> name, num |-> num, spd |-> spd, lu |-> lu, su |-> su]
NoCall == Call("None", "", 0, <<>>, <<>>, <<>>)
Opt(S) == {<<>>} \cup { <<v>> : v \in S }
OrDefault(arg, default) == IF arg = <<>> THEN default ELSE arg[1]

\* position - self.check_position(): int.__sub__ knows numbers only
Sub(a, b) ==
    IF a.t = "num" /\ b.t = "num" THEN Num(a.n - b.n) ELSE [t |-> "TypeError"]

\* round(): to the nearest integer, a tie to the even one
Round(x) ==
    LET q == x \div Scale
        r == x % Scale
    IN  IF 2 * r < Scale THEN q
        ELSE IF 2 * r > Scale THEN q + 1
        ELSE IF q % 2 = 0 THEN q ELSE q + 1

Keys(modes) == { modes[i].name : i \in 1 .. Len(modes) }
Lookup(modes, name) ==
    modes[CHOOSE i \in 1 .. Len(modes) : modes[i].name = name].pos

\* list(self.modes.keys())
list_modes_value(modes) == [i \in 1 .. Len(modes) |-> modes[i].name]

\* get_mode's loop over self.modes.items() on the position read
\* (variant: pos_current == mode_pos, without round)
GetModeExact(modes, pos_current) ==
    LET hit == { i \in 1 .. Len(modes) : pos_current = modes[i].pos }
    IN  IF hit = {} THEN "undefined"
        ELSE modes[CHOOSE i \in hit : \A j \in hit : i <= j].name
get_mode_value(modes, pos_current) ==
    LET hit == { i \in 1 .. Len(modes) : Round(pos_current) * Scale = modes[i].pos }
    IN  IF hit = {} THEN "undefined"
        ELSE modes[CHOOSE i \in hit : \A j \in hit : i <= j].name

\* with Connection.open_serial_port(...) as connection: the connections open
\* once the block is left, normally or by an exception
\* (variant: connection.close() as the block's last statement, no with)
SessionExitLeak(fault) == IF fault THEN conn ELSE conn - 1
session_exit(fault) == conn - 1

\* --------------------------------------------------------------- Init
Init ==
    /\ \/ /\ self \in [cls : {"ZaberModeSelector"}, modes : ModeTables,
                       speed : {DefaultSpeed}, profile : {"None"} \cup ProfileNames,
                       basis : {0}, length_unit : {"ANGLE_DEGREES"},
                       speed_unit : {"ANGULAR_VELOCITY_DEGREES_PER_SECOND"}]
          /\ \E system_led \in BOOLEAN :
                call = [t \in Tasks |->
                          IF t = "A"
                            THEN Call("__init__", "", IF system_led THEN 1 ELSE 0,
                                      <<>>, <<>>, <<>>)
                            ELSE NoCall]
          /\ pc = [t \in Tasks |-> IF t = "A" THEN "__init__" ELSE "idle"]
          /\ ret = [t \in Tasks |-> IF t = "A" THEN Running ELSE Returned(None)]
       \/ /\ self \in [cls : {"ZaberMotor"}, modes : {<<>>}, speed : {DefaultSpeed},
                       profile : {"None"}, basis : Positions,
                       length_unit : {"ANGLE_DEGREES"},
                       speed_unit : {"ANGULAR_VELOCITY_DEGREES_PER_SECOND"}]
          /\ call = [t \in Tasks |->
                       IF t = "A" THEN Call("__init__", "", 0, <<>>, <<>>, <<>>)
                                  ELSE NoCall]
          /\ pc = [t \in Tasks |-> "idle"]
          /\ ret = [t \in Tasks |-> Returned(None)]
    /\ axis \in Positions
    /\ led \in {0, 1}
    /\ conn = 0
    /\ cur = [t \in Tasks |-> ""]
    /\ cmds = [t \in Tasks |-> <<>>]
    /\ pos0 = [t \in Tasks |-> IF t = "A" THEN axis ELSE 0]
    /\ solo = TRUE
    /\ after = ""

IsSelector == self.cls = "ZaberModeSelector"
IsMotor == self.cls = "ZaberMotor"

\* the call in t is suspended in await axis.move_absolute_async(...), or
\* nothing runs there
\* inside await axis.move_absolute_async(...): the command is sent and the
\* device has not answered (mt_open), or it has answered, with the move done
\* (mt_done) or with a fault (mt_fault), and the caller is not yet resumed
Suspended == {"mt_open", "mt_done", "mt_fault"}
Parked(t) == pc[t] \in {"idle"} \cup Suspended

\* Bookkeeping of the per-task records: the entry of f for the call in t
\* becomes v.  A and B name the callers by the order of their pending calls:
\* A is the caller when nothing else is pending, B the one that calls while
\* A's call is suspended in move_to.  When A's call ends while B's is still
\* suspended, B's call is the older pending one and takes A's place, and the
\* record of the call that ended is kept in B's.  Otherwise a step of A
\* drops the record of a call that B has finished (blank).
Set(f, t, v, blank) ==
    IF t = "A" /\ pc["B"] = "idle"
      THEN [x \in Tasks |-> IF x = "A" THEN v ELSE blank]
      ELSE IF t = "A" /\ pc["A"] \in {"mt_done", "mt_fault"} /\ pc["B"] \in Suspended
        THEN [x \in Tasks |-> IF x = "A" THEN f["B"] ELSE v]
        ELSE [f EXCEPT ![t] = v]

\* task t steps and leaves these records of itself as they are
KeepCall(t) == call' = Set(call, t, call[t], NoCall)
KeepCur(t) == cur' = Set(cur, t, cur[t], "")
KeepCmds(t) == cmds' = Set(cmds, t, cmds[t], <<>>)
KeepPos0(t) == pos0' = Set(pos0, t, pos0[t], 0)
KeepRet(t) == ret' = Set(ret, t, ret[t], Returned(None))
NoCmds(t) == cmds' = Set(cmds, t, <<>>, <<>>)
Sent(t, cmd) == cmds' = Set(cmds, t, Append(cmds[t], cmd), <<>>)

\* a step of the call in t that is no call of a public method: when A's call
\* ends with B's still suspended, B's call takes A's place as one that began
\* while another caller's was pending
KeepSolo(t) ==
    solo' = IF t = "A" /\ pc["A"] \in {"mt_done", "mt_fault"} /\ pc["B"] \in Suspended
              THEN call["B"].op # "set_mode" ELSE solo

\* A public method is called, without the commands it sends in this step: by
\* A when no call is pending, by B while A's call is suspended in move_to.  No task runs while another is between two
\* of its suspension points.
Begin(t, c) ==
    /\ pc[t] = "idle"
    /\ IF t = "A" THEN pc["B"] = "idle" ELSE pc["A"] \in Suspended
    /\ call' = Set(call, t, c, NoCall)
    /\ solo' = (t = "A" \/ call["A"].op # "set_mode")
    /\ pos0' = Set(pos0, t,
                    IF IsMotor \/ c.op \in {"get_mode", "set_mode", "profile_move_to"}
                      THEN axis ELSE 0,
                    0)
    /\ cur' = Set(cur, t, "", "")
    /\ after' = IF /\ t = "A"
                    /\ c.op \in {"get_mode", "check_position"}
                    /\ call["A"].op = "set_mode"
                    /\ call["A"].name \in Keys(self.modes)
                    /\ ret["A"].err = "None"
                    /\ solo
                 THEN call["A"].name ELSE ""

\* a later step of task t's call: the other task does not run meanwhile
Continue(t, at) ==
    /\ pc[t] = at
    /\ Parked(Other(t))

\* the call returns or raises without touching the serial port
Finish(t, r) ==
    /\ ret' = Set(ret, t, r, Returned(None))
    /\ pc' = Set(pc, t, "idle", "idle")
    /\ conn' = conn

\* Connection.open_serial_port(self.port): the with-block is entered, also
\* when the other task holds the port open and the driver opens it a second
\* time; or the driver refuses (the port is held or cannot be opened) and
\* the call raises the driver's error
Enter(t, at) ==
    \/ /\ conn' = conn + 1
       /\ pc' = Set(pc, t, at, "idle")
       /\ ret' = Set(ret, t, Running, Returned(None))
    \/ Finish(t, Raised("DriverFault"))

\* the with-block is left and the call is over
Leave(t, fault, r) ==
    /\ conn' = session_exit(fault)
    /\ ret' = Set(ret, t, r, Returned(None))
    /\ pc' = Set(pc, t, "idle", "idle")

Cmd(kind, amount, velocity, length_unit, velocity_unit) ==
    [kind |-> kind, amount |-> amount, velocity |-> velocity,
     length_unit |-> length_unit, velocity_unit |-> velocity_unit]

\* ---------------------------------------------- ZaberModeSelector.__init__
\* self.enable_led(system_led), the last statement of the constructor
Construct ==
    /\ pc["A"] = "__init__"
    /\ \/ /\ conn' = conn + 1
          /\ pc' = [pc EXCEPT !["A"] = "led_open"]
          /\ ret' = ret
       \/ /\ conn' = conn
          /\ pc' = [pc EXCEPT !["A"] = "failed"]
          /\ ret' = [ret EXCEPT !["A"] = Raised("DriverFault")]
    /\ UNCHANGED <<self, axis, led, call, cur, cmds, pos0, solo, after>>

enable_led(t, status) ==
    /\ IsSelector
    /\ Begin(t, Call("enable_led", "", IF status THEN 1 ELSE 0, <<>>, <<>>, <<>>))
    /\ Enter(t, "led_open")
    /\ NoCmds(t)
    /\ UNCHANGED <<self, axis, led>>

\* device.settings.set("system.led.enable", float(status)), then the block ends
enable_led_return(t) ==
    /\ Continue(t, "led_open")
    /\ \E fault \in BOOLEAN :
         /\ conn' = session_exit(fault)
         /\ IF fault
              THEN /\ ret' = Set(ret, t, Raised("DriverFault"), Returned(None))
                   /\ pc' = Set(pc, t, IF call[t].op = "__init__" THEN "failed" ELSE "idle",
                             "idle")
                   /\ led' = led
              ELSE /\ ret' = Set(ret, t, Returned(None), Returned(None))
                   /\ pc' = Set(pc, t, "idle", "idle")
                   /\ led' = call[t].num
    /\ KeepCall(t) /\ KeepCur(t) /\ KeepCmds(t) /\ KeepPos0(t)
    /\ KeepSolo(t)
    /\ UNCHANGED <<self, axis, after>>

\* ------------------------------------------------------------ list_modes
list_modes(t) ==
    /\ IsSelector
    /\ Begin(t, Call("list_modes", "", 0, <<>>, <<>>, <<>>))
    /\ Finish(t, Returned(List(list_modes_value(self.modes))))
    /\ NoCmds(t)
    /\ UNCHANGED <<self, axis, led>>

\* -------------------------------------------------------- check_position
check_position(t) ==
    /\ IsSelector
    /\ Begin(t, Call("check_position", "", 0, <<>>, <<>>, <<>>))
    /\ Enter(t, "cp_open")
    /\ NoCmds(t)
    /\ UNCHANGED <<self, axis, led>>

get_mode(t) ==
    /\ IsSelector
    /\ Begin(t, Call("get_mode", "", 0, <<>>, <<>>, <<>>))
    /\ Enter(t, "cp_open")
    /\ NoCmds(t)
    /\ UNCHANGED <<self, axis, led>>

\* axis.get_position(unit=self.length_unit) returns to whoever awaited it:
\* the caller of check_position, get_mode's loop, or set_mode's get_mode()
check_position_return(t) ==
    /\ IsSelector
    /\ Continue(t, "cp_open")
    /\ \E fault \in BOOLEAN :
         /\ conn' = session_exit(fault)
         /\ IF fault
              THEN /\ ret' = Set(ret, t, Raised("DriverFault"), Returned(None))
                   /\ pc' = Set(pc, t, "idle", "idle")
                   /\ KeepCur(t)
              ELSE CASE call[t].op = "check_position" ->
                          /\ ret' = Set(ret, t, Returned(Num(axis)), Returned(None))
                          /\ pc' = Set(pc, t, "idle", "idle")
                          /\ KeepCur(t)
                     [] call[t].op = "get_mode" ->
                          /\ ret' = Set(ret, t,
                                        Returned(Str(get_mode_value(self.modes, axis))),
                                        Returned(None))
                          /\ pc' = Set(pc, t, "idle", "idle")
                          /\ KeepCur(t)
                     [] call[t].op = "set_mode" ->
                          /\ KeepRet(t)
                          /\ pc' = Set(pc, t, "set_mode_156", "idle")
                          /\ cur' = Set(cur, t, get_mode_value(self.modes, axis), "")
    /\ KeepCall(t) /\ KeepCmds(t) /\ KeepPos0(t)
    /\ KeepSolo(t)
    /\ UNCHANGED <<self, axis, led, after>>

\* --------------------------------------------------------------- move_to
\* with Connection.open_serial_port(...): ... await axis.move_absolute_async(
\* position, self.length_unit, velocity=self.speed, velocity_unit=...): the
\* command is sent and the caller is suspended until the device answers;
\* or the port cannot be opened, or enable_alerts, detect_devices or get_axis
\* raises, and the call raises with no command sent and without suspending
\* (sent: the commands the call has sent before)
move_to_body(t, position, sent) ==
    \/ /\ conn' = conn + 1
       /\ pc' = Set(pc, t, "mt_open", "idle")
       /\ ret' = Set(ret, t, Running, Returned(None))
       /\ cmds' = Set(cmds, t,
                      Append(sent, Cmd("absolute", position, self.speed,
                                       self.length_unit, self.speed_unit)),
                      <<>>)
    \/ /\ Finish(t, Raised("DriverFault"))
       /\ cmds' = Set(cmds, t, sent, <<>>)

move_to(t, position) ==
    /\ IsSelector
    /\ Begin(t, Call("move_to", "", position, <<>>, <<>>, <<>>))
    /\ move_to_body(t, position, <<>>)
    /\ UNCHANGED <<self, axis, led>>

\* what the running move_to was given: its argument, or self.modes[mode]
Target(t) ==
    IF call[t].op = "set_mode" THEN Lookup(self.modes, call[t].name) ELSE call[t].num

\* the device answers the absolute move: the axis is at the target, or the
\* move failed; the suspended caller is resumed later
\* (variant: move_relative in its place)
MoveToRelative(t) ==
    /\ IsSelector
    /\ pc[t] = "mt_open"
    /\ Parked(Other(t))
    /\ \E fault \in BOOLEAN :
         IF fault \/ axis + Target(t) \notin Positions
           THEN /\ pc' = Set(pc, t, "mt_fault", "idle")
                /\ axis' = axis
           ELSE /\ pc' = Set(pc, t, "mt_done", "idle")
                /\ axis' = axis + Target(t)
    /\ KeepCall(t) /\ KeepCur(t) /\ KeepPos0(t) /\ KeepCmds(t) /\ KeepRet(t)
    /\ UNCHANGED <<self, led, conn, solo, after>>
move_absolute_async(t) ==
    /\ IsSelector
    /\ pc[t] = "mt_open"
    /\ Parked(Other(t))
    /\ \E fault \in BOOLEAN :
         IF fault
           THEN /\ pc' = Set(pc, t, "mt_fault", "idle")
                /\ axis' = axis
           ELSE /\ pc' = Set(pc, t, "mt_done", "idle")
                /\ axis' = Target(t)
    /\ KeepCall(t) /\ KeepCur(t) /\ KeepPos0(t) /\ KeepCmds(t) /\ KeepRet(t)
    /\ UNCHANGED <<self, led, conn, solo, after>>

\* the caller is resumed: the with-block is left and move_to (and a set_mode
\* that awaited it) returns, or passes on the driver's error
move_to_return(t) ==
    /\ IsSelector
    /\ pc[t] \in {"mt_done", "mt_fault"}
    /\ Parked(Other(t))
    /\ IF pc[t] = "mt_fault"
         THEN Leave(t, TRUE, Raised("DriverFault"))
         ELSE Leave(t, FALSE, Returned(None))
    /\ KeepCall(t) /\ KeepCur(t) /\ KeepPos0(t) /\ KeepCmds(t)
    /\ KeepSolo(t)
    /\ UNCHANGED <<self, axis, led, after>>

\* --------------------------------------------------------------- move_by
move_by(t, length, speed) ==
    /\ IsSelector
    /\ Begin(t, Call("move_by", "", length, speed, <<>>, <<>>))
    /\ Enter(t, "mb_open")
    /\ NoCmds(t)
    /\ UNCHANGED <<self, axis, led>>

\* enable_alerts, detect_devices or get_axis raises, with no command sent;
\* or axis.move_relative(length, ..., velocity=speed, ...) is called, where
\* the driver may raise and refuses a move that leaves the travel range
move_by_return(t) ==
    /\ IsSelector
    /\ Continue(t, "mb_open")
    /\ \/ /\ Leave(t, TRUE, Raised("DriverFault"))
          /\ axis' = axis
          /\ KeepCmds(t)
       \/ /\ \E fault \in BOOLEAN :
                IF fault \/ axis + call[t].num \notin Positions
                  THEN /\ Leave(t, TRUE, Raised("DriverFault"))
                       /\ axis' = axis
                  ELSE /\ Leave(t, FALSE, Returned(None))
                       /\ axis' = axis + call[t].num
          /\ Sent(t, Cmd("relative", call[t].num, OrDefault(call[t].spd, self.speed),
                         self.length_unit, self.speed_unit))
    /\ KeepCall(t) /\ KeepCur(t) /\ KeepPos0(t)
    /\ KeepSolo(t)
    /\ UNCHANGED <<self, led, after>>

\* ------------------------------------------------------- profile_move_to
\* s_max = position - self.check_position() subtracts a coroutine that was
\* never awaited; were s_max a number, abs(0) < s_max would decide whether the
\* loop is entered, and its first statement calls profile, which is the
\* configured name (a str)
profile_move_to_result(position, profile) ==
    LET s_max == Sub(Num(position), Coroutine("check_position"))
    IN  IF s_max.t = "TypeError" THEN Raised("TypeError")
        ELSE IF 0 < s_max.n THEN Raised("TypeError")
        ELSE Returned(None)

profile_move_to(t, position, profile) ==
    /\ IsSelector
    /\ Begin(t, Call("profile_move_to", profile, position, <<>>, <<>>, <<>>))
    /\ Finish(t, profile_move_to_result(position, profile))
    /\ NoCmds(t)
    /\ UNCHANGED <<self, axis, led>>

\* -------------------------------------------------------------- set_mode
\* (variant: self.modes[mode] without the membership test)
SetModeUnguarded(t, mode) ==
    /\ IsSelector
    /\ Begin(t, Call("set_mode", mode, 0, <<>>, <<>>, <<>>))
    /\ IF mode \in Keys(self.modes)
         THEN Enter(t, "cp_open")
         ELSE Finish(t, Raised("KeyError"))
    /\ NoCmds(t)
    /\ UNCHANGED <<self, axis, led>>
set_mode(t, mode) ==
    /\ IsSelector
    /\ Begin(t, Call("set_mode", mode, 0, <<>>, <<>>, <<>>))
    /\ IF mode \in Keys(self.modes)
         THEN Enter(t, "cp_open")
         ELSE Finish(t, Returned(None))
    /\ NoCmds(t)
    /\ UNCHANGED <<self, axis, led>>

\* if await self.get_mode() == mode: ... else: move_to or profile_move_to
\* (variant: without the test for the mode already selected)
SetModeAlwaysMoves(t) ==
    /\ Continue(t, "set_mode_156")
    /\ IF self.profile = "None"
         THEN move_to_body(t, Lookup(self.modes, call[t].name), cmds[t])
         ELSE /\ Finish(t, profile_move_to_result(Lookup(self.modes, call[t].name),
                                                  self.profile))
              /\ KeepCmds(t)
    /\ KeepCall(t) /\ KeepCur(t) /\ KeepPos0(t)
    /\ KeepSolo(t)
    /\ UNCHANGED <<self, axis, led, after>>
set_mode_dispatch(t) ==
    /\ Continue(t, "set_mode_156")
    /\ IF cur[t] = call[t].name
         THEN Finish(t, Returned(None)) /\ KeepCmds(t)
         ELSE IF self.profile = "None"
                THEN move_to_body(t, Lookup(self.modes, call[t].name), cmds[t])
                ELSE /\ Finish(t, profile_move_to_result(
                                      Lookup(self.modes, call[t].name), self.profile))
                     /\ KeepCmds(t)
    /\ KeepCall(t) /\ KeepCur(t) /\ KeepPos0(t)
    /\ KeepSolo(t)
    /\ UNCHANGED <<self, axis, led, after>>

\* ------------------------------------------------- the IMotion stubs
\* logging.error("Not implemented") and a fixed return value
Stub(t, op, val) ==
    /\ IsSelector
    /\ Begin(t, Call(op, "", 0, <<>>, <<>>, <<>>))
    /\ Finish(t, Returned(val))
    /\ NoCmds(t)
    /\ UNCHANGED <<self, axis, led>>

init(t) == Stub(t, "init", None)

park(t) == Stub(t, "park", None)

get_motion_status(t) == Stub(t, "get_motion_status", Str("MotionStatus.ERROR"))

\* (variant: a stop_motion that ends the move in flight)
StopMotionAborts(t) ==
    /\ IsSelector
    /\ Begin(t, Call("stop_motion", "", 0, <<>>, <<>>, <<>>))
    /\ ret' = [x \in Tasks |-> IF x = t THEN Returned(None)
                               ELSE IF pc[x] \in Suspended THEN Raised("Stopped")
                               ELSE ret[x]]
    /\ pc' = [x \in Tasks |-> "idle"]
    /\ conn' = 0
    /\ NoCmds(t)
    /\ UNCHANGED <<self, axis, led>>
stop_motion(t) == Stub(t, "stop_motion", None)

is_ready(t) == Stub(t, "is_ready", Bool(TRUE))

\* ------------------------------------------------------------ ZaberMotor
\* none of its coroutines awaits I/O: a call runs to its end, and the one
\* caller is task A
LengthUnits == {"ANGLE_DEGREES"}
SpeedUnits == {"ANGULAR_VELOCITY_DEGREES_PER_SECOND"}

ZaberMotor_move_by(length, speed, length_unit, speed_unit) ==
    /\ IsMotor
    /\ Begin("A", Call("move_by", "", length, speed, length_unit, speed_unit))
    /\ Enter("A", "mb_open")
    /\ NoCmds("A")
    /\ UNCHANGED <<self, axis, led>>

\* axis.move_relative(length, length_unit, velocity=speed, velocity_unit=speed_unit)
\* with the defaults of the method that was called: move_by takes
\* self.speed_unit for a missing speed_unit, move_to takes self.speed
ZaberMotor_move_by_return ==
    /\ IsMotor
    /\ Continue("A", "mb_open")
    /\ LET c == call["A"]
           length == IF c.op = "move_by" THEN c.num ELSE c.num - pos0["A"]
           speed == OrDefault(c.spd, self.speed)
           length_unit == OrDefault(c.lu, self.length_unit)
           speed_unit == IF c.op = "move_by"
                           THEN OrDefault(c.su, self.speed_unit)
                           ELSE OrDefault(c.su, self.speed)
       IN  \/ /\ Leave("A", TRUE, Raised("DriverFault"))
              /\ axis' = axis
              /\ KeepCmds("A")
           \/ /\ \E fault \in BOOLEAN :
                    IF fault \/ axis + length \notin Positions
                      THEN /\ Leave("A", TRUE, Raised("DriverFault"))
                           /\ axis' = axis
                      ELSE /\ Leave("A", FALSE, Returned(None))
                           /\ axis' = axis + length
              /\ Sent("A", Cmd("relative", length, speed, length_unit, speed_unit))
    /\ KeepCall("A") /\ KeepCur("A") /\ KeepPos0("A")
    /\ KeepSolo("A")
    /\ UNCHANGED <<self, led, after>>

ZaberMotor_check_position(position_unit) ==
    /\ IsMotor
    /\ Begin("A", Call("check_position", "", 0, <<>>, position_unit, <<>>))
    /\ Enter("A", "cp_open")
    /\ NoCmds("A")
    /\ UNCHANGED <<self, axis, led>>

ZaberMotor_check_position_return ==
    /\ IsMotor
    /\ Continue("A", "cp_open")
    /\ \E fault \in BOOLEAN :
         IF fault THEN Leave("A", TRUE, Raised("DriverFault"))
                  ELSE Leave("A", FALSE, Returned(Num(axis)))
    /\ KeepCall("A") /\ KeepCur("A") /\ KeepCmds("A") /\ KeepPos0("A")
    /\ KeepSolo("A")
    /\ UNCHANGED <<self, axis, led, after>>

\* step = position - self.check_position() subtracts a coroutine that was
\* never awaited; were step a number, move_by(step, ...) would follow
ZaberMotor_move_to_from(c) ==
    LET step == Sub(Num(c.num), Coroutine("check_position"))
    IN  /\ IsMotor
        /\ Begin("A", c)
        /\ IF step.t = "TypeError" THEN Finish("A", Raised("TypeError"))
                                   ELSE Enter("A", "mb_open")
        /\ NoCmds("A")
        /\ UNCHANGED <<self, axis, led>>

ZaberMotor_move_to(position, speed, length_unit, speed_unit) ==
    ZaberMotor_move_to_from(Call("move_to", "", position, speed, length_unit, speed_unit))

\* await self.move_to(self.basis)
ZaberMotor_to_basis ==
    ZaberMotor_move_to_from(Call("to_basis", "", self.basis, <<>>, <<>>, <<>>))

\* ------------------------------------------------------------------ Next
Next ==
    \/ Construct
    \/ \E t \in Tasks, status \in BOOLEAN : enable_led(t, status)
    \/ \E t \in Tasks : enable_led_return(t)
    \/ \E t \in Tasks : list_modes(t)
    \/ \E t \in Tasks : check_position(t)
    \/ \E t \in Tasks : get_mode(t)
    \/ \E t \in Tasks : check_position_return(t)
    \/ \E t \in Tasks, position \in Positions : move_to(t, position)
    \/ \E t \in Tasks : move_absolute_async(t)
    \/ \E t \in Tasks : move_to_return(t)
    \/ \E t \in Tasks, length \in Lengths, speed \in Opt(Speeds) : move_by(t, length, speed)
    \/ \E t \in Tasks : move_by_return(t)
    \/ \E t \in Tasks, position \in ModePositions, profile \in ProfileNames :
          profile_move_to(t, position, profile)
    \/ \E t \in Tasks, mode \in ModeArgs : set_mode(t, mode)
    \/ \E t \in Tasks : set_mode_dispatch(t)
    \/ \E t \in Tasks : init(t)
    \/ \E t \in Tasks : park(t)
    \/ \E t \in Tasks : get_motion_status(t)
    \/ \E t \in Tasks : stop_motion(t)
    \/ \E t \in Tasks : is_ready(t)
    \/ \E length \in Lengths, speed \in Opt(Speeds),
          length_unit \in Opt(LengthUnits), speed_unit \in Opt(SpeedUnits) :
          ZaberMotor_move_by(length, speed, length_unit, speed_unit)
    \/ ZaberMotor_move_by_return
    \/ \E position_unit \in Opt(LengthUnits) : ZaberMotor_check_position(position_unit)
    \/ ZaberMotor_check_position_return
    \/ \E position \in Positions, speed \in Opt(Speeds),
          length_unit \in Opt(LengthUnits), speed_unit \in Opt(SpeedUnits) :
          ZaberMotor_move_to(position, speed, length_unit, speed_unit)
    \/ ZaberMotor_to_basis

Spec == Init /\ [][Next]_vars

\* ================================================================ claims
Abs(x) == IF x < 0 THEN 0 - x ELSE x

\* the last call of t was op and it is over
Done(t, op) == pc[t] = "idle" /\ ret[t].done /\ call[t].op = op

\* the integer nearest to position x (a tie going to the even integer) is the
\* configured position p, both in steps of 1/Scale
RoundsTo(x, p) ==
    /\ p % Scale = 0
    /\ \/ 2 * Abs(x - p) < Scale
       \/ 2 * Abs(x - p) = Scale /\ (p \div Scale) % 2 = 0

\* the first entry of the mode table whose position x rounds to
Selected(x, i) ==
    /\ i \in 1 .. Len(self.modes)
    /\ RoundsTo(x, self.modes[i].pos)
    /\ \A j \in 1 .. (i - 1) : ~RoundsTo(x, self.modes[j].pos)

StubOps == {"init", "park", "get_motion_status", "stop_motion", "is_ready"}
Sessions == {"led_open", "cp_open", "mb_open"} \cup Suspended

\* C1: a get_mode() that follows a set_mode(name) which returned, with no
\* other call pending in between, reports name, or a mode configured with
\* the same position as name, whatever that position is.
C1_RoundTrip ==
    (Done("A", "get_mode") /\ ret["A"].err = "None" /\ after # "")
        => /\ ret["A"].val.s \in Keys(self.modes)
           /\ Lookup(self.modes, ret["A"].val.s) = Lookup(self.modes, after)

\* C2 as stated: after a set_mode(name) that returned, check_position() reads
\* exactly the configured position when no profile is configured, and a
\* position that rounds to it when one is.
C2_ExactWithoutProfile ==
    (Done("A", "check_position") /\ ret["A"].err = "None" /\ after # "")
        => IF self.profile = "None"
             THEN ret["A"].val.n = Lookup(self.modes, after)
             ELSE RoundsTo(ret["A"].val.n, Lookup(self.modes, after))

\* C2 amended: after a set_mode(name) that returned, with no other caller
\* calling during that set_mode or since, check_position() reads, when no
\* profile is configured, exactly the configured position (set_mode moved
\* the motor) or a position that rounds to it (set_mode skipped the move),
\* and when a profile is configured a position that rounds to it.
C2_ExactOrRounded ==
    (Done("A", "check_position") /\ ret["A"].err = "None" /\ after # "")
        => IF self.profile = "None"
             THEN \/ ret["A"].val.n = Lookup(self.modes, after)
                  \/ RoundsTo(ret["A"].val.n, Lookup(self.modes, after))
             ELSE RoundsTo(ret["A"].val.n, Lookup(self.modes, after))

C2_Witness ==
    /\ Done("A", "check_position") /\ ret["A"].err = "None" /\ after # ""
    /\ self.profile = "None"
    /\ ret["A"].val.n # Lookup(self.modes, after)

\* C3: set_mode(name) with a name that is no key of the mode table returns
\* None without raising, sends no motion command, opens no connection and
\* leaves the motor, the object's fields and a call in flight as they were.
C3_UnknownModeIsNoOp ==
    [][\A t \in Tasks :
          (/\ pc[t] = "idle"
           /\ call'[t].op = "set_mode" /\ call'[t].name \notin Keys(self.modes)
           /\ <<call[t], ret[t]>> # <<call'[t], ret'[t]>>)
          => /\ pc' = pc
             /\ ret'[t] = Returned(None)
             /\ cmds'[t] = <<>>
             /\ axis' = axis /\ led' = led /\ conn' = conn
             /\ self' = self]_vars

C3_Witness ==
    /\ Done("A", "set_mode") /\ call["A"].name \notin Keys(self.modes)
    /\ self.profile # "None"
    /\ ret["A"] = Returned(None)

\* C4: profile_move_to(position, profile) started away from position, above
\* or below it, ends after exactly steps relative moves of s_max/steps each,
\* which sum to s_max = position - start.
C4_HundredSteps ==
    (Done("A", "profile_move_to") /\ call["A"].num # pos0["A"])
        => /\ ret["A"].err = "None"
           /\ Len(cmds["A"]) = steps
           /\ \A i \in 1 .. Len(cmds["A"]) :
                 /\ cmds["A"][i].kind = "relative"
                 /\ steps * cmds["A"][i].amount = call["A"].num - pos0["A"]
           /\ axis = call["A"].num

\* C5: get_mode() sends no motion command, leaves the motor where it is and
\* raises only what the driver raises; it returns a mode name only if the
\* position read rounds to that mode's position, and "undefined" exactly when
\* the position read rounds to no configured position.
C5_GetMode ==
    \A t \in Tasks :
        Done(t, "get_mode")
            => /\ cmds[t] = <<>> /\ axis = pos0[t]
               /\ ret[t].err \in {"None", "DriverFault"}
               /\ ret[t].err = "None" =>
                    /\ ret[t].val.s # "undefined" =>
                          \E i \in 1 .. Len(self.modes) :
                             /\ self.modes[i].name = ret[t].val.s
                             /\ RoundsTo(axis, self.modes[i].pos)
                    /\ ret[t].val.s = "undefined" <=>
                          \A i \in 1 .. Len(self.modes) :
                             ~RoundsTo(axis, self.modes[i].pos)

C5_Witness ==
    /\ Done("A", "get_mode") /\ ret["A"].err = "None"
    /\ ret["A"].val.s = "undefined"
    /\ Len(self.modes) = 2
    /\ self.modes[1].pos < axis /\ axis < self.modes[2].pos

\* C6: set_mode(name) for a configured name, called when get_mode() is name,
\* sends no motion command and leaves the motor where it was; so a command
\* is sent only when the current mode differs from name.
C6_SkipWhenSelected ==
    \A t \in Tasks :
        (call[t].op = "set_mode" /\ call[t].name \in Keys(self.modes)
            /\ \E i \in 1 .. Len(self.modes) :
                  Selected(pos0[t], i) /\ self.modes[i].name = call[t].name)
            => /\ cmds[t] = <<>>
               /\ axis = pos0[t]
               /\ pc[t] \notin {"mb_open"} \cup Suspended
               /\ ret[t].err \in {"None", "DriverFault"}

C6_Witness ==
    /\ Done("A", "set_mode") /\ ret["A"] = Returned(None)
    /\ call["A"].name \in Keys(self.modes) /\ cur["A"] = call["A"].name
    /\ self.profile = "None"
    /\ axis # Lookup(self.modes, call["A"].name)

\* C7: init, park, get_motion_status, stop_motion and is_ready never raise,
\* get_motion_status returns ERROR and is_ready True, and none of them
\* touches the motor, the serial port, the object's fields or a call that is
\* in flight.
C7_StubsInert ==
    [][\A t \in Tasks :
          (/\ pc[t] = "idle"
           /\ call'[t].op \in StubOps
           /\ <<call[t], ret[t]>> # <<call'[t], ret'[t]>>)
          => /\ ret'[t] = Returned(CASE call'[t].op = "get_motion_status" ->
                                          Str("MotionStatus.ERROR")
                                     [] call'[t].op = "is_ready" -> Bool(TRUE)
                                     [] OTHER -> None)
             /\ cmds'[t] = <<>>
             /\ axis' = axis /\ led' = led /\ conn' = conn /\ pc' = pc /\ self' = self
             /\ pc[Other(t)] # "idle" =>
                   /\ call'[Other(t)] = call[Other(t)]
                   /\ ret'[Other(t)] = ret[Other(t)]
                   /\ cmds'[Other(t)] = cmds[Other(t)]]_vars

C7_Witness ==
    /\ pc["A"] = "mt_open" /\ call["A"].op \in {"move_to", "set_mode"}
    /\ Done("B", "stop_motion") /\ ret["B"] = Returned(None)
    /\ ret["A"] = Running /\ conn = 1

\* C8: set_mode(name) for a configured name that is not the current mode
\* sends, with no profile configured, exactly one absolute move to
\* modes[name] at the configured speed; with a profile configured it runs the
\* profiled move, sending relative moves only, and returns without error.
C8_Dispatch ==
    (Done("A", "set_mode") /\ call["A"].name \in Keys(self.modes)
        /\ cur["A"] # "" /\ cur["A"] # call["A"].name /\ ret["A"].err # "DriverFault")
        => IF self.profile = "None"
             THEN /\ ret["A"].err = "None"
                  /\ cmds["A"] = << Cmd("absolute", Lookup(self.modes, call["A"].name),
                                        self.speed, self.length_unit, self.speed_unit) >>
             ELSE /\ ret["A"].err = "None"
                  /\ cmds["A"] # <<>>
                  /\ \A i \in 1 .. Len(cmds["A"]) : cmds["A"][i].kind = "relative"

\* C9 as stated: at most one connection to the serial port is open, and none
\* is open unless a move_by, check_position, move_to or enable_led is inside
\* its with-block.
C9_AtMostOne ==
    /\ conn \in {0, 1}
    /\ (\A t \in Tasks : pc[t] \notin Sessions) => conn = 0

\* C9 amended: every move_by, check_position, move_to or enable_led that is
\* inside its with-block holds exactly one connection and no connection is
\* open otherwise: none when no such call is executing, one while the calls
\* are issued one after the other, and a call that ended, by return or by a
\* driver fault, left none behind.
C9_ConnectionScoped ==
    /\ conn = Cardinality({ t \in Tasks : pc[t] \in Sessions })
    /\ pc["B"] = "idle" => conn \in {0, 1}

C9_Witness ==
    /\ pc["A"] = "mt_open" /\ pc["B"] = "cp_open"
    /\ conn = 2

\* C10: ZaberMotor.move_to(position) (and to_basis, with the configured
\* basis) reads the position and sends exactly one relative move of
\* position minus the value read, in the instance's default units when none
\* are given, so that the motor ends at position.
C10_MoveToReachesPosition ==
    (IsMotor /\ pc["A"] = "idle" /\ ret["A"].done
        /\ call["A"].op \in {"move_to", "to_basis"} /\ ret["A"].err # "DriverFault")
        => /\ ret["A"].err = "None"
           /\ axis = call["A"].num
           /\ cmds["A"] = << Cmd("relative", call["A"].num - pos0["A"],
                                 OrDefault(call["A"].spd, self.speed),
                                 OrDefault(call["A"].lu, self.length_unit),
                                 OrDefault(call["A"].su, self.speed_unit)) >>

====
